---- MODULE Spec2Model ----
(***************************************************************************)
(* Validation of a JVMChaos object against the chaosblade rule catalog     *)
(* (api/v1alpha1/jvmchaos_webhook.go).                                     *)
(*                                                                         *)
(* Strings that the code parses (parameter values) are sequences of        *)
(* one-character strings, so that strconv.Atoi and strconv.ParseBool are   *)
(* computed character by character.  Strings that the code only compares   *)
(* or prints (targets, actions, parameter names, path elements, message    *)
(* fragments) are atomic tokens.  A formatted message is the sequence of   *)
(* the tokens fmt.Sprintf writes, in order.                                *)
(***************************************************************************)
EXTENDS Naturals, Sequences, FiniteSets, TLC

VARIABLES target, action, flags, matchers, pc, createErrs, updateErrs

vars == <<target, action, flags, matchers, pc, createErrs, updateErrs>>

----------------------------------------------------------------------------
(* Bounds of the model                                                     *)

\* largest number of entries of flags and matchers together
MaxParams == 2

\* the same, for the objects that try the parsers
MaxTypedParams == 1

\* largest action map whose iteration order ranges over every permutation
MaxShuffle == 3

----------------------------------------------------------------------------
(* Types and constants                                                     *)

IntType == "int"
BoolType == "bool"
StringType == "string"

\* the zero value of ParameterType, which a rule literal without a
\* ParameterType field carries
NoType == ""

SERVLET == "SERVLET"
PSQL == "PSQL"
MYSQL == "MYSQL"
JEDIS == "JEDIS"
HTTP == "HTTP"
ROCKETMQ == "ROCKETMQ"
TARS == "TARS"
DUBBO == "DUBBO"
JVM == "JVM"
DRUID == "DRUID"

JVMDelayAction == "delay"
JVMExceptionAction == "exception"
JVMReturnAction == "return"
JVMScriptAction == "script"
JVMOOMAction == "oom"
JVMCpuFullloadAction == "cpu-fullload"
JVMCodeCacheFillingAction == "code-cache-filling"
JVMThreadPoolFullAction == "thread-pool-full"
JVMThrowDeclaredExceptionAction == "throw-declared-exception"
JVMConnectionPoolFullAction == "connection-pool-full"

\* a nil slice; it has no elements
nil == <<>>

ParameterRules(name, type, required) ==
  [Name |-> name, ParameterType |-> type, Required |-> required]

ActionParameterRules(act, flagRules, matcherRules) ==
  [Action |-> act, Flags |-> flagRules, Matcher |-> matcherRules]

\* target -> the entries of its action map, in the order of the literal
JvmSpec ==
     SERVLET :> <<
         ActionParameterRules(JVMDelayAction,
           <<
             ParameterRules("time", IntType, TRUE),
             ParameterRules("offset", IntType, FALSE)
           >>,
           <<
             ParameterRules("effect-count", IntType, FALSE),
             ParameterRules("effect-percent", IntType, FALSE),
             ParameterRules("method", NoType, FALSE),
             ParameterRules("querystring", NoType, FALSE),
             ParameterRules("requestpath", NoType, FALSE)
           >>),
         ActionParameterRules(JVMExceptionAction,
           <<
             ParameterRules("exception", NoType, TRUE),
             ParameterRules("exception-message", NoType, FALSE)
           >>,
           <<
             ParameterRules("effect-count", IntType, FALSE),
             ParameterRules("effect-percent", IntType, FALSE),
             ParameterRules("method", NoType, FALSE),
             ParameterRules("querystring", NoType, FALSE),
             ParameterRules("requestpath", NoType, FALSE)
           >>)
     >>
  @@ PSQL :> <<
         ActionParameterRules(JVMDelayAction,
           <<
             ParameterRules("time", IntType, TRUE),
             ParameterRules("offset", IntType, FALSE)
           >>,
           <<
             ParameterRules("effect-count", IntType, FALSE),
             ParameterRules("effect-percent", IntType, FALSE),
             ParameterRules("sqltype", NoType, FALSE),
             ParameterRules("database", NoType, FALSE),
             ParameterRules("port", IntType, FALSE),
             ParameterRules("host", NoType, FALSE),
             ParameterRules("table", NoType, FALSE)
           >>),
         ActionParameterRules(JVMExceptionAction,
           <<
             ParameterRules("exception", NoType, TRUE),
             ParameterRules("exception-message", NoType, FALSE)
           >>,
           <<
             ParameterRules("effect-count", IntType, FALSE),
             ParameterRules("effect-percent", IntType, FALSE),
             ParameterRules("sqltype", NoType, FALSE),
             ParameterRules("database", NoType, FALSE),
             ParameterRules("port", IntType, FALSE),
             ParameterRules("host", NoType, FALSE),
             ParameterRules("table", NoType, FALSE)
           >>)
     >>
  @@ MYSQL :> <<
         ActionParameterRules(JVMDelayAction,
           <<
             ParameterRules("time", IntType, TRUE),
             ParameterRules("offset", IntType, FALSE)
           >>,
           <<
             ParameterRules("effect-count", IntType, FALSE),
             ParameterRules("effect-percent", IntType, FALSE),
             ParameterRules("sqltype", NoType, FALSE),
             ParameterRules("database", NoType, FALSE),
             ParameterRules("port", IntType, FALSE),
             ParameterRules("host", NoType, FALSE),
             ParameterRules("table", NoType, FALSE)
           >>),
         ActionParameterRules(JVMExceptionAction,
           <<
             ParameterRules("exception", NoType, TRUE),
             ParameterRules("exception-message", NoType, FALSE)
           >>,
           <<
             ParameterRules("effect-count", IntType, FALSE),
             ParameterRules("effect-percent", IntType, FALSE),
             ParameterRules("sqltype", NoType, FALSE),
             ParameterRules("database", NoType, FALSE),
             ParameterRules("port", IntType, FALSE),
             ParameterRules("host", NoType, FALSE),
             ParameterRules("table", NoType, FALSE)
           >>)
     >>
  @@ JEDIS :> <<
         ActionParameterRules(JVMDelayAction,
           <<
             ParameterRules("time", IntType, TRUE),
             ParameterRules("offset", IntType, FALSE)
           >>,
           <<
             ParameterRules("effect-count", IntType, FALSE),
             ParameterRules("effect-percent", IntType, FALSE),
             ParameterRules("cmd", NoType, FALSE),
             ParameterRules("key", NoType, FALSE)
           >>),
         ActionParameterRules(JVMExceptionAction,
           <<
             ParameterRules("exception", NoType, TRUE),
             ParameterRules("exception-message", NoType, FALSE)
           >>,
           <<
             ParameterRules("effect-count", IntType, FALSE),
             ParameterRules("effect-percent", IntType, FALSE),
             ParameterRules("cmd", NoType, FALSE),
             ParameterRules("key", NoType, FALSE)
           >>)
     >>
  @@ HTTP :> <<
         ActionParameterRules(JVMDelayAction,
           <<
             ParameterRules("time", IntType, TRUE),
             ParameterRules("offset", IntType, FALSE)
           >>,
           <<
             ParameterRules("effect-count", IntType, FALSE),
             ParameterRules("effect-percent", IntType, FALSE),
             ParameterRules("httpclient4", BoolType, FALSE),
             ParameterRules("rest", BoolType, FALSE),
             ParameterRules("httpclient3", BoolType, FALSE),
             ParameterRules("uri", NoType, TRUE)
           >>),
         ActionParameterRules(JVMExceptionAction,
           <<
             ParameterRules("exception", NoType, TRUE),
             ParameterRules("exception-message", NoType, FALSE)
           >>,
           <<
             ParameterRules("effect-count", IntType, FALSE),
             ParameterRules("effect-percent", IntType, FALSE),
             ParameterRules("httpclient4", BoolType, FALSE),
             ParameterRules("rest", BoolType, FALSE),
             ParameterRules("httpclient3", BoolType, FALSE),
             ParameterRules("uri", NoType, TRUE)
           >>)
     >>
  @@ ROCKETMQ :> <<
         ActionParameterRules(JVMDelayAction,
           <<
             ParameterRules("time", IntType, TRUE),
             ParameterRules("offset", IntType, FALSE)
           >>,
           <<
             ParameterRules("effect-count", IntType, FALSE),
             ParameterRules("effect-percent", IntType, FALSE),
             ParameterRules("producerGroup", NoType, FALSE),
             ParameterRules("topic", NoType, FALSE),
             ParameterRules("consumerGroup", NoType, FALSE)
           >>),
         ActionParameterRules(JVMExceptionAction,
           <<
             ParameterRules("exception", NoType, TRUE),
             ParameterRules("exception-message", NoType, FALSE)
           >>,
           <<
             ParameterRules("effect-count", IntType, FALSE),
             ParameterRules("effect-percent", IntType, FALSE),
             ParameterRules("producerGroup", NoType, FALSE),
             ParameterRules("topic", NoType, FALSE),
             ParameterRules("consumerGroup", NoType, FALSE)
           >>)
     >>
  @@ TARS :> <<
         ActionParameterRules(JVMDelayAction,
           <<
             ParameterRules("time", IntType, TRUE),
             ParameterRules("offset", IntType, FALSE)
           >>,
           <<
             ParameterRules("effect-count", IntType, FALSE),
             ParameterRules("effect-percent", IntType, FALSE),
             ParameterRules("servant", BoolType, FALSE),
             ParameterRules("functionname", NoType, FALSE),
             ParameterRules("client", BoolType, FALSE),
             ParameterRules("servantname", NoType, TRUE)
           >>),
         ActionParameterRules(JVMExceptionAction,
           <<
             ParameterRules("exception", NoType, TRUE),
             ParameterRules("exception-message", NoType, FALSE)
           >>,
           <<
             ParameterRules("effect-count", IntType, FALSE),
             ParameterRules("effect-percent", IntType, FALSE),
             ParameterRules("servant", BoolType, FALSE),
             ParameterRules("functionname", NoType, FALSE),
             ParameterRules("client", BoolType, FALSE),
             ParameterRules("servantname", NoType, TRUE)
           >>)
     >>
  @@ DUBBO :> <<
         ActionParameterRules(JVMDelayAction,
           <<
             ParameterRules("time", IntType, TRUE),
             ParameterRules("offset", IntType, FALSE)
           >>,
           <<
             ParameterRules("effect-count", IntType, FALSE),
             ParameterRules("effect-percent", IntType, FALSE),
             ParameterRules("appname", NoType, FALSE),
             ParameterRules("provider", BoolType, FALSE),
             ParameterRules("service", NoType, FALSE),
             ParameterRules("version", NoType, FALSE),
             ParameterRules("consumer", BoolType, FALSE),
             ParameterRules("group", NoType, FALSE)
           >>),
         ActionParameterRules(JVMExceptionAction,
           <<
             ParameterRules("exception", NoType, TRUE),
             ParameterRules("exception-message", NoType, FALSE)
           >>,
           <<
             ParameterRules("effect-count", IntType, FALSE),
             ParameterRules("effect-percent", IntType, FALSE),
             ParameterRules("appname", NoType, FALSE),
             ParameterRules("provider", BoolType, FALSE),
             ParameterRules("service", NoType, FALSE),
             ParameterRules("version", NoType, FALSE),
             ParameterRules("consumer", BoolType, FALSE),
             ParameterRules("group", NoType, FALSE)
           >>),
         ActionParameterRules(JVMThreadPoolFullAction,
           nil,
           <<
             ParameterRules("effect-count", IntType, FALSE),
             ParameterRules("effect-percent", IntType, FALSE),
             ParameterRules("provider", BoolType, FALSE)
           >>)
     >>
  @@ JVM :> <<
         ActionParameterRules(JVMDelayAction,
           <<
             ParameterRules("time", IntType, TRUE),
             ParameterRules("offset", IntType, FALSE)
           >>,
           <<
             ParameterRules("effect-count", IntType, FALSE),
             ParameterRules("effect-percent", IntType, FALSE),
             ParameterRules("classname", NoType, TRUE),
             ParameterRules("after", BoolType, FALSE),
             ParameterRules("methodname", NoType, TRUE)
           >>),
         ActionParameterRules(JVMExceptionAction,
           <<
             ParameterRules("exception", NoType, TRUE),
             ParameterRules("exception-message", NoType, FALSE)
           >>,
           <<
             ParameterRules("effect-count", IntType, FALSE),
             ParameterRules("effect-percent", IntType, FALSE),
             ParameterRules("classname", NoType, TRUE),
             ParameterRules("after", BoolType, FALSE),
             ParameterRules("methodname", NoType, TRUE)
           >>),
         ActionParameterRules(JVMCodeCacheFillingAction,
           nil,
           nil),
         ActionParameterRules(JVMCpuFullloadAction,
           <<
             ParameterRules("cpu-count", IntType, FALSE)
           >>,
           nil),
         ActionParameterRules(JVMThrowDeclaredExceptionAction,
           nil,
           <<
             ParameterRules("effect-count", IntType, FALSE),
             ParameterRules("effect-percent", IntType, FALSE),
             ParameterRules("classname", NoType, TRUE),
             ParameterRules("after", BoolType, FALSE),
             ParameterRules("methodname", NoType, TRUE)
           >>),
         ActionParameterRules(JVMReturnAction,
           <<
             ParameterRules("value", NoType, TRUE)
           >>,
           <<
             ParameterRules("effect-count", IntType, FALSE),
             ParameterRules("effect-percent", IntType, FALSE),
             ParameterRules("classname", NoType, TRUE),
             ParameterRules("after", BoolType, FALSE),
             ParameterRules("methodname", NoType, TRUE)
           >>),
         ActionParameterRules(JVMScriptAction,
           <<
             ParameterRules("script-file", NoType, FALSE),
             ParameterRules("script-type", NoType, FALSE),
             ParameterRules("script-content", NoType, FALSE),
             ParameterRules("script-name", NoType, FALSE)
           >>,
           <<
             ParameterRules("effect-count", IntType, FALSE),
             ParameterRules("effect-percent", IntType, FALSE),
             ParameterRules("classname", NoType, TRUE),
             ParameterRules("after", BoolType, FALSE),
             ParameterRules("methodname", NoType, TRUE)
           >>),
         ActionParameterRules(JVMOOMAction,
           <<
             ParameterRules("area", NoType, TRUE),
             ParameterRules("wild-mode", BoolType, FALSE),
             ParameterRules("interval", IntType, FALSE),
             ParameterRules("block", IntType, FALSE)
           >>,
           nil)
     >>
  @@ DRUID :> <<
         ActionParameterRules(JVMConnectionPoolFullAction,
           nil,
           <<
             ParameterRules("effect-count", IntType, FALSE),
             ParameterRules("effect-percent", IntType, FALSE)
           >>)
     >>

----------------------------------------------------------------------------
(* k8s.io/apimachinery field paths and errors                              *)

Child(path, name) == Append(path, name)

RECURSIVE Join(_, _)
Join(parts, sep) ==
  IF Len(parts) = 0 THEN <<>>
  ELSE IF Len(parts) = 1 THEN parts[1]
  ELSE parts[1] \o sep \o Join(Tail(parts), sep)

\* Path.String(): the elements joined by "."
PathString(path) == Join([i \in 1..Len(path) |-> <<path[i]>>], <<".">>)

InvalidAtRoot(path, value, detail) ==
  [Type |-> "FieldValueInvalid", Field |-> <<path[1]>>, BadValue |-> value, Detail |-> detail]

Invalid(path, value, detail) ==
  [Type |-> "FieldValueInvalid", Field |-> path, BadValue |-> value, Detail |-> detail]

Required(path, detail) ==
  [Type |-> "FieldValueRequired", Field |-> path, BadValue |-> <<>>, Detail |-> detail]

Quote(s) == <<"\"", s, "\"">>

NotSupported(path, value, validValues) ==
  [Type |-> "FieldValueNotSupported", Field |-> path, BadValue |-> <<value>>,
   Detail |-> <<"supported values: ">>
              \o Join([i \in 1..Len(validValues) |-> Quote(validValues[i])], <<", ">>)]

\* Error.Error() of a NotSupported error, as %s prints it
ErrorString(e) ==
  PathString(e.Field) \o <<": ", "Unsupported value: ">> \o Quote(e.BadValue[1])
    \o <<": ">> \o e.Detail

----------------------------------------------------------------------------
(* strconv                                                                 *)

Digits == {"0", "1", "2", "3", "4", "5", "6", "7", "8", "9"}

DigitVal(c) ==
  CASE c = "0" -> 0 [] c = "1" -> 1 [] c = "2" -> 2 [] c = "3" -> 3 [] c = "4" -> 4
    [] c = "5" -> 5 [] c = "6" -> 6 [] c = "7" -> 7 [] c = "8" -> 8 [] c = "9" -> 9

RECURSIVE StripZeros(_)
StripZeros(ds) ==
  IF Len(ds) > 0 /\ ds[1] = "0" THEN StripZeros(Tail(ds)) ELSE ds

\* a <= b for digit strings of equal length
RECURSIVE DigitsLE(_, _)
DigitsLE(a, b) ==
  IF Len(a) = 0 THEN TRUE
  ELSE IF DigitVal(a[1]) < DigitVal(b[1]) THEN TRUE
  ELSE IF DigitVal(a[1]) > DigitVal(b[1]) THEN FALSE
  ELSE DigitsLE(Tail(a), Tail(b))

\* 1<<63 - 1 and 1<<63, the magnitudes of the largest and smallest int
MaxIntDigits ==
  <<"9","2","2","3","3","7","2","0","3","6","8","5","4","7","7","5","8","0","7">>
MinIntDigits ==
  <<"9","2","2","3","3","7","2","0","3","6","8","5","4","7","7","5","8","0","8">>

AtoiUnsigned(s) ==
  /\ Len(s) > 0
  /\ \A i \in 1..Len(s) : s[i] \in Digits

\* TRUE iff strconv.Atoi(s) returns a nil error: an optional sign, then one
\* or more decimal digits, the number within the range of a 64-bit int
Atoi(s) ==
  LET neg == Len(s) > 0 /\ s[1] = "-"
      signed == Len(s) > 0 /\ s[1] \in {"+", "-"}
      ds == IF signed THEN Tail(s) ELSE s
      mag == StripZeros(ds)
      limit == IF neg THEN MinIntDigits ELSE MaxIntDigits
  IN /\ Len(ds) > 0
     /\ \A i \in 1..Len(ds) : ds[i] \in Digits
     /\ \/ Len(mag) < Len(limit)
        \/ Len(mag) = Len(limit) /\ DigitsLE(mag, limit)

ParseBoolDigit(s) == s \in { <<"1">>, <<"0">> }

\* TRUE iff strconv.ParseBool(s) returns a nil error
ParseBool(s) ==
  s \in { <<"1">>, <<"t">>, <<"T">>, <<"T","R","U","E">>, <<"t","r","u","e">>,
          <<"T","r","u","e">>, <<"0">>, <<"f">>, <<"F">>,
          <<"F","A","L","S","E">>, <<"f","a","l","s","e">>, <<"F","a","l","s","e">> }

----------------------------------------------------------------------------
(* Maps                                                                    *)

\* a map[string]string: isNil tells the nil map from an empty one
NilMap == [isNil |-> TRUE, kv |-> <<>>]
Map(f) == [isNil |-> FALSE, kv |-> f]

\* value, exist = parameters[name]
Exists(parameters, name) == ~parameters.isNil /\ name \in DOMAIN parameters.kv
Value(parameters, name) ==
  IF Exists(parameters, name) THEN parameters.kv[name] ELSE <<>>

\* the keys of a target's action map
Actions(tgt) == {JvmSpec[tgt][i].Action : i \in 1..Len(JvmSpec[tgt])}

\* actions[act], for act a key of the map
ActionPR(tgt, act) ==
  LET i == CHOOSE i \in 1..Len(JvmSpec[tgt]) : JvmSpec[tgt][i].Action = act
  IN JvmSpec[tgt][i]

RECURSIVE Perms(_)
Perms(S) ==
  IF S = {} THEN {<<>>}
  ELSE UNION {{<<x>> \o p : p \in Perms(S \ {x})} : x \in S}

Rotations(seq) ==
  {[i \in 1..Len(seq) |-> seq[((i + k - 1) % Len(seq)) + 1]] : k \in 0..(Len(seq) - 1)}

RangeOrdersCut(tgt) ==
  LET stored == [i \in 1..Len(JvmSpec[tgt]) |-> JvmSpec[tgt][i].Action]
  IN Rotations(stored) \cup {SubSeq(stored, 1, Len(stored) - 1)}

\* the orders in which "for k := range actions" may visit the keys: any
\* order for a small map; for a larger one the orders a single-bucket map
\* gives, the stored order read from any starting slot
RangeOrders(tgt) ==
  IF Len(JvmSpec[tgt]) <= MaxShuffle
    THEN Perms(Actions(tgt))
    ELSE Rotations([i \in 1..Len(JvmSpec[tgt]) |-> JvmSpec[tgt][i].Action])

----------------------------------------------------------------------------
(* The validation                                                          *)

toStringShort(actions) == [i \in 1..(Len(actions) - 1) |-> actions[i]]

toString(actions) == [i \in 1..Len(actions) |-> actions[i]]

\* the message of a missing required parameter
RequiredMsg(tgt, act, targetField, actionField) ==
  <<"with ">> \o PathString(targetField) \o <<": ", tgt, ", ">>
    \o PathString(actionField) \o <<": ", act>>

RequiredErrsAtParent(tgt, act, rule, exist, innerField, targetField, actionField) ==
  IF rule.Required /\ ~exist
    THEN <<Required(SubSeq(innerField, 1, Len(innerField) - 1),
                    RequiredMsg(tgt, act, targetField, actionField))>>
    ELSE <<>>

\* if rule.Required && !exist
RequiredErrs(tgt, act, rule, exist, innerField, targetField, actionField) ==
  IF rule.Required /\ ~exist
    THEN <<Required(innerField, RequiredMsg(tgt, act, targetField, actionField))>>
    ELSE <<>>

\* if exist && rule.Required && rule.ParameterType == StringType
EmptyErrs(rule, exist, value, innerField) ==
  IF exist /\ rule.Required /\ rule.ParameterType = StringType /\ Len(value) = 0
    THEN <<Invalid(innerField, value,
             PathString(innerField) \o <<":">> \o value \o <<" cannot be empty">>)>>
    ELSE <<>>

IntErrsWhenAbsent(rule, exist, value, innerField) ==
  IF rule.ParameterType = IntType /\ ~Atoi(value)
    THEN <<Invalid(innerField, value,
             PathString(innerField) \o <<":">> \o value \o <<" cannot parse as Int">>)>>
    ELSE <<>>

\* if exist && rule.ParameterType == IntType
IntErrs(rule, exist, value, innerField) ==
  IF exist /\ rule.ParameterType = IntType /\ ~Atoi(value)
    THEN <<Invalid(innerField, value,
             PathString(innerField) \o <<":">> \o value \o <<" cannot parse as Int">>)>>
    ELSE <<>>

\* if exist && rule.ParameterType == BoolType
BoolErrs(rule, exist, value, innerField) ==
  IF exist /\ rule.ParameterType = BoolType /\ ~ParseBool(value)
    THEN <<Invalid(innerField, value,
             PathString(innerField) \o <<":">> \o value \o <<" cannot parse as boolean">>)>>
    ELSE <<>>

\* the errors the loop body appends for one rule
RuleErrs(tgt, act, parameters, rule, parent, targetField, actionField) ==
  LET innerField == Child(parent, rule.Name)
      exist == Exists(parameters, rule.Name)
      value == Value(parameters, rule.Name)
  IN RequiredErrs(tgt, act, rule, exist, innerField, targetField, actionField)
     \o EmptyErrs(rule, exist, value, innerField)
     \o IntErrs(rule, exist, value, innerField)
     \o BoolErrs(rule, exist, value, innerField)

RECURSIVE validateParameterRulesFailFast(_, _, _, _, _, _, _)
validateParameterRulesFailFast(tgt, act, parameters, rules, parent, targetField, actionField) ==
  IF Len(rules) = 0 THEN <<>>
  ELSE LET errs == RuleErrs(tgt, act, parameters, Head(rules), parent,
                            targetField, actionField)
       IN IF Len(errs) > 0 THEN errs
          ELSE validateParameterRulesFailFast(tgt, act, parameters, Tail(rules), parent,
                                              targetField, actionField)

RECURSIVE CheckRules(_, _, _, _, _, _, _)
CheckRules(tgt, act, parameters, rules, parent, targetField, actionField) ==
  IF Len(rules) = 0 THEN <<>>
  ELSE RuleErrs(tgt, act, parameters, Head(rules), parent, targetField, actionField)
       \o CheckRules(tgt, act, parameters, Tail(rules), parent, targetField, actionField)

validateParameterRulesStrict(tgt, act, parameters, rules, parent, targetField, actionField) ==
  CheckRules(tgt, act, parameters, rules, parent, targetField, actionField)
  \o (IF \E k \in DOMAIN parameters.kv : \A i \in 1..Len(rules) : rules[i].Name # k
        THEN <<Invalid(parent, <<>>, <<"unknown parameter">>)>>
        ELSE <<>>)

RECURSIVE validateParameterRules(_, _, _, _, _, _, _)
validateParameterRules(tgt, act, parameters, rules, parent, targetField, actionField) ==
  IF Len(rules) = 0 THEN <<>>
  ELSE RuleErrs(tgt, act, parameters, Head(rules), parent, targetField, actionField)
       \o validateParameterRules(tgt, act, parameters, Tail(rules), parent,
                                 targetField, actionField)

\* order: the order in which the range loop visits the action map's keys
validateJvmChaos(tgt, act, fl, ma, spec, order) ==
  LET targetField == Child(spec, "target")
      actionField == Child(spec, "action")
      flagsField == Child(spec, "flags")
      matcherField == Child(spec, "matcher")
  IN IF tgt \in DOMAIN JvmSpec
       THEN IF act \in Actions(tgt)
              THEN LET actionPR == ActionPR(tgt, act)
                   IN (IF actionPR.Flags # nil
                         THEN validateParameterRules(tgt, act, fl, actionPR.Flags,
                                flagsField, targetField, actionField)
                         ELSE <<>>)
                      \o
                      (IF actionPR.Matcher # nil
                         THEN validateParameterRules(tgt, act, ma, actionPR.Matcher,
                                matcherField, targetField, actionField)
                         ELSE <<>>)
              ELSE LET supportActions == order
                       notSupportedError ==
                         NotSupported(actionField, act, toString(supportActions))
                       errorMsg ==
                         <<"target: ", tgt, " does not match action: ", act,
                           ", action detail error: ">> \o ErrorString(notSupportedError)
                   IN <<Invalid(targetField, <<tgt>>, errorMsg)>>
       ELSE <<Invalid(targetField, <<tgt>>, <<"unknown JVM chaos target">>)>>

----------------------------------------------------------------------------
(* The objects validated                                                   *)

\* parameter values a request may carry: "", "100", "true", "/orders"
Values ==
  { <<>>,
    <<"1","0","0">>,
    <<"t","r","u","e">>,
    <<"/","o","r","d","e","r","s">> }

\* values that try the parsers: "", "123", "abc", "four", "true", "false",
\* "maybe", "tRuE", "1", " 1", "-5", "9223372036854775808"
TypeValues ==
  { <<>>,
    <<"1","2","3">>,
    <<"a","b","c">>,
    <<"f","o","u","r">>,
    <<"t","r","u","e">>,
    <<"f","a","l","s","e">>,
    <<"m","a","y","b","e">>,
    <<"t","R","u","E">>,
    <<"1">>,
    <<" ","1">>,
    <<"-","5">>,
    <<"9","2","2","3","3","7","2","0","3","6","8","5","4","7","7","5","8","0","8">> }

\* a target and an action outside the catalog, and a parameter no rule names
UnknownTarget == "UNKNOWN"
UnknownAction == "UNKNOWN"
ExtraKey == "bogus"

Targets == DOMAIN JvmSpec \cup {UnknownTarget}
AllActions == UNION {Actions(t) : t \in DOMAIN JvmSpec} \cup {UnknownAction}

Known(tgt, act) == tgt \in DOMAIN JvmSpec /\ act \in Actions(tgt)

Names(rules) == {rules[i].Name : i \in 1..Len(rules)}

\* the keys a submitted map is built from: for a pair of the catalog every
\* parameter of its schema and one more; otherwise one usual parameter
FlagKeys(tgt, act) ==
  IF Known(tgt, act) THEN Names(ActionPR(tgt, act).Flags) \cup {ExtraKey} ELSE {"time"}
MatcherKeys(tgt, act) ==
  IF Known(tgt, act) THEN Names(ActionPR(tgt, act).Matcher) \cup {ExtraKey} ELSE {"uri"}

Size(m) == Cardinality(DOMAIN m.kv)

\* the nil map and every map of at most n entries over keys
Maps(keys, vals, n) ==
  {NilMap} \cup
  {Map(f) : f \in UNION {[d -> vals] : d \in {e \in SUBSET keys : Cardinality(e) <= n}}}

\* an object whose flags and matchers hold at most n entries together
InitOver(vals, n) ==
  /\ target \in Targets
  /\ action \in AllActions
  /\ flags \in Maps(FlagKeys(target, action), vals, n)
  /\ matchers \in Maps(MatcherKeys(target, action), vals, n - Size(flags))
  /\ pc = "new"
  /\ createErrs = <<>>
  /\ updateErrs = <<>>

Init == InitOver(Values, MaxParams)

InitTypes == InitOver(TypeValues, MaxTypedParams)

\* the orders the range loop of a call may take; the loop runs only for a
\* known target whose action map lacks the action
Orders ==
  IF target \in DOMAIN JvmSpec /\ action \notin Actions(target)
    THEN RangeOrders(target)
    ELSE {<<>>}

\* ValidateCreate: Validate() of the new object
ValidateCreate ==
  /\ pc = "new"
  /\ \E order \in Orders :
       createErrs' = validateJvmChaos(target, action, flags, matchers, <<"spec">>, order)
  /\ pc' = "created"
  /\ UNCHANGED <<target, action, flags, matchers, updateErrs>>

\* ValidateUpdate: Validate() of the object again, its spec unchanged
ValidateUpdate ==
  /\ pc = "created"
  /\ \E order \in Orders :
       updateErrs' = validateJvmChaos(target, action, flags, matchers, <<"spec">>, order)
  /\ pc' = "updated"
  /\ UNCHANGED <<target, action, flags, matchers, createErrs>>

Next == ValidateCreate \/ ValidateUpdate

Spec == Init /\ [][Next]_vars

SpecTypes == InitTypes /\ [][Next]_vars


----------------------------------------------------------------------------
(* Vocabulary of the properties                                            *)

TargetField == <<"spec", "target">>
FlagsField == <<"spec", "flags">>
MatcherField == <<"spec", "matcher">>

Last(s) == s[Len(s)]

\* the kind of a violation, read off the error the code built
Kind(e) ==
  IF e.Type = "FieldValueRequired" THEN "RequiredMissing"
  ELSE IF e.Type # "FieldValueInvalid" \/ Len(e.Detail) = 0 THEN "Other"
  ELSE IF e.Detail = <<"unknown JVM chaos target">> THEN "TargetUnknown"
  ELSE IF e.Detail[1] = "target: " THEN "ActionUnsupported"
  ELSE IF Last(e.Detail) = " cannot be empty" THEN "EmptyValue"
  ELSE IF Last(e.Detail) \in {" cannot parse as Int", " cannot parse as boolean"}
    THEN "TypeMismatch"
  ELSE "Other"

\* the action names a message enumerates after "supported values: "
ListedActions(detail) ==
  IF \E i \in 1..Len(detail) : detail[i] = "supported values: "
    THEN LET i == CHOOSE j \in 1..Len(detail) : detail[j] = "supported values: "
         IN SelectSeq(SubSeq(detail, i + 1, Len(detail)),
                      LAMBDA t : t \notin {"\"", ", "})
    ELSE <<>>

\* the part of a message before the enumeration
BeforeList(detail) ==
  IF \E i \in 1..Len(detail) : detail[i] = "supported values: "
    THEN LET i == CHOOSE j \in 1..Len(detail) : detail[j] = "supported values: "
         IN SubSeq(detail, 1, i)
    ELSE detail

Range(s) == {s[i] : i \in 1..Len(s)}

\* the violations of a list addressed at a path
At(errs, path) == SelectSeq(errs, LAMBDA e : e.Field = path)

\* the first validation has just returned
Validated == pc = "created"
KnownPair == Known(target, action)
FlagRules == IF KnownPair THEN ActionPR(target, action).Flags ELSE <<>>
MatcherRules == IF KnownPair THEN ActionPR(target, action).Matcher ELSE <<>>

Present(m, name) == ~m.isNil /\ name \in DOMAIN m.kv

\* the values of the model that are decimal integers, and those that are
\* boolean literals: "100", "123", "1", "-5"; "true", "false", "1"
IntLiterals == { <<"1","0","0">>, <<"1","2","3">>, <<"1">>, <<"-","5">> }
BoolLiterals == { <<"t","r","u","e">>, <<"f","a","l","s","e">>, <<"1">> }

Typed(rule) == rule.ParameterType \in {IntType, BoolType}
Parses(rule, v) ==
  IF rule.ParameterType = IntType THEN v \in IntLiterals ELSE v \in BoolLiterals

Missing(rule, m) == rule.Required /\ ~Present(m, rule.Name)
Malformed(rule, m) ==
  Typed(rule) /\ Present(m, rule.Name) /\ ~Parses(rule, m.kv[rule.Name])
\* a required parameter of no int or bool type, present with the value ""
Blank(rule, m) ==
  rule.Required /\ ~Typed(rule) /\ Present(m, rule.Name) /\ m.kv[rule.Name] = <<>>

----------------------------------------------------------------------------
(* C1 *)

\* C1: for a target that is no key of the catalog the result is exactly one
\* violation, of kind TargetUnknown, at the target field, carrying the target;
\* it is the same whatever the action, the flags and the matchers are.
C1_UnknownTarget ==
  (Validated /\ target \notin DOMAIN JvmSpec) =>
    /\ Len(createErrs) = 1
    /\ Kind(createErrs[1]) = "TargetUnknown"
    /\ createErrs[1].Field = TargetField
    /\ createErrs[1].BadValue = <<target>>
    /\ createErrs[1].Detail = <<"unknown JVM chaos target">>

C1_Witness ==
  /\ pc = "created"
  /\ target = UnknownTarget
  /\ action = JVMDelayAction
  /\ Size(flags) = 1
  /\ Size(matchers) = 1
  /\ Len(createErrs) = 1

----------------------------------------------------------------------------
(* C2 *)

\* C2: for a target of the catalog and an action its map lacks the result is
\* exactly one ActionUnsupported violation; its message names the target and
\* the rejected action and lists every action of the target exactly once and
\* nothing else; no parameter is checked.
C2_UnsupportedAction ==
  (Validated /\ target \in DOMAIN JvmSpec /\ action \notin Actions(target)) =>
    /\ Len(createErrs) = 1
    /\ Kind(createErrs[1]) = "ActionUnsupported"
    /\ LET listed == ListedActions(createErrs[1].Detail)
       IN /\ Range(listed) = Actions(target)
          /\ Len(listed) = Cardinality(Actions(target))
    /\ target \in Range(BeforeList(createErrs[1].Detail))
    /\ action \in Range(BeforeList(createErrs[1].Detail))

C2_Witness ==
  /\ pc = "created"
  /\ target = JVM
  /\ action = JVMThreadPoolFullAction
  /\ Size(flags) = 1
  /\ Len(createErrs) = 1
  /\ Len(ListedActions(createErrs[1].Detail)) = 8

----------------------------------------------------------------------------
(* C3 *)

\* C3: for a pair of the catalog, every required rule of string type (the
\* type of a rule that declares none) whose parameter is present with the
\* value "" has an EmptyValue violation at its path; DUBBO / exception with
\* flags = {exception: ""} and no matchers yields exactly that one violation.
C3_EmptyValue ==
  (Validated /\ KnownPair) =>
    /\ \A i \in 1..Len(FlagRules) :
         Blank(FlagRules[i], flags) =>
           \E j \in 1..Len(createErrs) :
             /\ createErrs[j].Field = Child(FlagsField, FlagRules[i].Name)
             /\ Kind(createErrs[j]) = "EmptyValue"
    /\ \A i \in 1..Len(MatcherRules) :
         Blank(MatcherRules[i], matchers) =>
           \E j \in 1..Len(createErrs) :
             /\ createErrs[j].Field = Child(MatcherField, MatcherRules[i].Name)
             /\ Kind(createErrs[j]) = "EmptyValue"
    /\ (/\ target = DUBBO
        /\ action = JVMExceptionAction
        /\ flags = Map([k \in {"exception"} |-> <<>>])
        /\ Size(matchers) = 0)
       => (/\ Len(createErrs) = 1
           /\ Kind(createErrs[1]) = "EmptyValue"
           /\ createErrs[1].Field = <<"spec", "flags", "exception">>)

----------------------------------------------------------------------------
(* C4 *)

\* C4: for a pair of the catalog, every required rule whose name is absent
\* from its map (the nil map included) has exactly one violation at
\* <prefix>/<name>, and that one is RequiredMissing; flags and matchers each
\* against their own map.
C4_RequiredMissing ==
  (Validated /\ KnownPair) =>
    /\ \A i \in 1..Len(FlagRules) :
         Missing(FlagRules[i], flags) =>
           LET at == At(createErrs, Child(FlagsField, FlagRules[i].Name))
           IN Len(at) = 1 /\ Kind(at[1]) = "RequiredMissing"
    /\ \A i \in 1..Len(MatcherRules) :
         Missing(MatcherRules[i], matchers) =>
           LET at == At(createErrs, Child(MatcherField, MatcherRules[i].Name))
           IN Len(at) = 1 /\ Kind(at[1]) = "RequiredMissing"

C4_Witness ==
  /\ pc = "created"
  /\ target = HTTP
  /\ action = JVMExceptionAction
  /\ flags = NilMap
  /\ matchers = Map([k \in {ExtraKey} |-> <<>>])
  /\ Len(createErrs) = 2

----------------------------------------------------------------------------
(* C5 *)

\* the violations a typed, present parameter must have: none when its value
\* parses, else exactly one TypeMismatch carrying the value
TypeChecked(rule, m, prefix) ==
  (Typed(rule) /\ Present(m, rule.Name)) =>
    LET at == At(createErrs, Child(prefix, rule.Name))
    IN IF Parses(rule, m.kv[rule.Name])
         THEN Len(at) = 0
         ELSE /\ Len(at) = 1
              /\ Kind(at[1]) = "TypeMismatch"
              /\ at[1].BadValue = m.kv[rule.Name]

\* C5: a present parameter of declared type int or bool has no violation
\* when its value parses and exactly one TypeMismatch at its path when it
\* does not, required or not.
C5_TypeChecks ==
  (Validated /\ KnownPair) =>
    /\ \A i \in 1..Len(FlagRules) : TypeChecked(FlagRules[i], flags, FlagsField)
    /\ \A i \in 1..Len(MatcherRules) : TypeChecked(MatcherRules[i], matchers, MatcherField)

C5_Witness ==
  /\ pc = "created"
  /\ target = JVM
  /\ action = JVMCpuFullloadAction
  /\ flags = Map([k \in {"cpu-count"} |-> <<"f","o","u","r">>])
  /\ Len(createErrs) = 1
  /\ Kind(createErrs[1]) = "TypeMismatch"
  /\ createErrs[1].Field = <<"spec", "flags", "cpu-count">>

----------------------------------------------------------------------------
(* C6 *)

\* the paths of a list of rules under a prefix
PathsOf(rules, prefix) == [i \in 1..Len(rules) |-> Child(prefix, rules[i].Name)]

\* the paths of the flags rules, then those of the matcher rules
RulePaths == PathsOf(FlagRules, FlagsField) \o PathsOf(MatcherRules, MatcherField)

\* errs reports each rule of the list that has a problem on map m, and no
\* rule that has none
ProblemsReported(errs, rules, m, prefix) ==
  \A i \in 1..Len(rules) :
    LET reported == \E j \in 1..Len(errs) : errs[j].Field = Child(prefix, rules[i].Name)
        problem == Missing(rules[i], m) \/ Malformed(rules[i], m)
    IN /\ problem => reported
       /\ (reported /\ ~Blank(rules[i], m)) => problem

\* errs is addressed at paths only, in their order
InOrder(errs, paths) ==
  /\ \A j \in 1..Len(errs) : \E p \in 1..Len(paths) : errs[j].Field = paths[p]
  /\ \A j \in 1..(Len(errs) - 1) :
       \E p, q \in 1..Len(paths) :
         /\ p < q
         /\ errs[j].Field = paths[p]
         /\ errs[j + 1].Field = paths[q]

\* C6: for a pair of the catalog every rule is checked, whatever was found
\* before it: a rule whose parameter is missing though required, or present
\* and malformed, is reported, a rule with no problem is not, and the list
\* runs in rule order, flags before matchers.  (What a required parameter
\* present as "" yields is C3's subject and is left open here.)
C6_AllRulesInOrder ==
  (Validated /\ KnownPair) =>
    /\ ProblemsReported(createErrs, FlagRules, flags, FlagsField)
    /\ ProblemsReported(createErrs, MatcherRules, matchers, MatcherField)
    /\ InOrder(createErrs, RulePaths)
    /\ (/\ target = HTTP
        /\ action = JVMDelayAction
        /\ Size(flags) = 0
        /\ Size(matchers) = 0)
       => (/\ Len(createErrs) = 2
           /\ Kind(createErrs[1]) = "RequiredMissing"
           /\ createErrs[1].Field = <<"spec", "flags", "time">>
           /\ Kind(createErrs[2]) = "RequiredMissing"
           /\ createErrs[2].Field = <<"spec", "matcher", "uri">>)

C6_Witness ==
  /\ pc = "created"
  /\ target = HTTP
  /\ action = JVMDelayAction
  /\ flags = Map(<<>>)
  /\ matchers = Map(<<>>)
  /\ Len(createErrs) = 2

----------------------------------------------------------------------------
(* C7 *)

\* C7 as stated: validating the same object twice yields the same list.
C7_SameListTwice ==
  (pc = "updated") => createErrs = updateErrs

\* C7, amended: the two lists have the same length and agree position by
\* position in field path, invalid value and kind; they are equal unless the
\* target is known and lacks the action, and then the two messages agree up
\* to the enumeration and enumerate the same actions, in any order.
C7_SameUpToActionOrder ==
  (pc = "updated") =>
    /\ Len(createErrs) = Len(updateErrs)
    /\ \A i \in 1..Len(createErrs) :
         /\ createErrs[i].Field = updateErrs[i].Field
         /\ createErrs[i].BadValue = updateErrs[i].BadValue
         /\ createErrs[i].Type = updateErrs[i].Type
         /\ Kind(createErrs[i]) = Kind(updateErrs[i])
         /\ BeforeList(createErrs[i].Detail) = BeforeList(updateErrs[i].Detail)
         /\ Range(ListedActions(createErrs[i].Detail))
              = Range(ListedActions(updateErrs[i].Detail))
         /\ Len(createErrs[i].Detail) = Len(updateErrs[i].Detail)
    /\ (KnownPair \/ target \notin DOMAIN JvmSpec) => createErrs = updateErrs

C7_Witness ==
  /\ pc = "updated"
  /\ target = DUBBO
  /\ action = JVMOOMAction
  /\ createErrs # updateErrs

----------------------------------------------------------------------------
(* C8 *)

\* m without the keys that no rule of the list names
WithoutExtraKeys(m, rules) ==
  IF m.isNil THEN m ELSE Map([k \in DOMAIN m.kv \cap Names(rules) |-> m.kv[k]])

\* C8: for a pair of the catalog the result is the one the maps give once
\* every key that no rule names is removed; no violation is addressed at
\* such a key, and a kind of parameter with no rules has no violation.
C8_ExtraKeysIgnored ==
  (Validated /\ KnownPair) =>
    /\ createErrs = validateJvmChaos(target, action, WithoutExtraKeys(flags, FlagRules),
                                     WithoutExtraKeys(matchers, MatcherRules), <<"spec">>, <<>>)
    /\ InOrder(createErrs, RulePaths)
    /\ Len(FlagRules) = 0 =>
         \A j \in 1..Len(createErrs) : SubSeq(createErrs[j].Field, 1, 2) # FlagsField
    /\ Len(MatcherRules) = 0 =>
         \A j \in 1..Len(createErrs) : SubSeq(createErrs[j].Field, 1, 2) # MatcherField

C8_Witness ==
  /\ pc = "created"
  /\ target = JVM
  /\ action = JVMCpuFullloadAction
  /\ Present(flags, ExtraKey)
  /\ Present(matchers, ExtraKey)
  /\ createErrs = <<>>

----------------------------------------------------------------------------
(* C9 *)

\* a rule the submitted map satisfies
Satisfied(rule, m) ==
  /\ rule.Required => (Present(m, rule.Name) /\ m.kv[rule.Name] # <<>>)
  /\ (Typed(rule) /\ Present(m, rule.Name)) => Parses(rule, m.kv[rule.Name])

\* errs has no violation for an absent parameter that is not required
OptionalAbsentSilent(errs, rules, m, prefix) ==
  \A i \in 1..Len(rules) :
    (~rules[i].Required /\ ~Present(m, rules[i].Name)) =>
      \A j \in 1..Len(errs) : errs[j].Field # Child(prefix, rules[i].Name)

\* C9: for a pair of the catalog the result is empty when every required
\* parameter is present and not "" and every present int or bool parameter
\* parses; an absent parameter that is not required has no violation.
C9_ValidRequest ==
  (Validated /\ KnownPair) =>
    /\ (/\ \A i \in 1..Len(FlagRules) : Satisfied(FlagRules[i], flags)
        /\ \A i \in 1..Len(MatcherRules) : Satisfied(MatcherRules[i], matchers))
       => createErrs = <<>>
    /\ OptionalAbsentSilent(createErrs, FlagRules, flags, FlagsField)
    /\ OptionalAbsentSilent(createErrs, MatcherRules, matchers, MatcherField)
    /\ (target = DRUID /\ action = JVMConnectionPoolFullAction /\ Size(matchers) = 0)
       => createErrs = <<>>

C9_Witness ==
  /\ pc = "created"
  /\ target = HTTP
  /\ action = JVMDelayAction
  /\ flags = Map([k \in {"time"} |-> <<"1","0","0">>])
  /\ matchers = Map([k \in {"uri"} |-> <<"/","o","r","d","e","r","s">>])
  /\ createErrs = <<>>

----------------------------------------------------------------------------
(* C10 *)

\* C10: for a pair of the catalog no two violations share a field path, and
\* there are at most as many violations as rules of the two schemas.
C10_OncePerRule ==
  (Validated /\ KnownPair) =>
    /\ \A j, k \in 1..Len(createErrs) :
         j # k => createErrs[j].Field # createErrs[k].Field
    /\ Len(createErrs) <= Len(FlagRules) + Len(MatcherRules)

C10_Witness ==
  /\ pc = "created"
  /\ target = JVM
  /\ action = JVMDelayAction
  /\ Size(flags) = 0
  /\ Size(matchers) = 0
  /\ Len(createErrs) = 3
====
